---- MODULE Spec2Model ----
(***************************************************************************)
(* Model of serverworkflowtool/setupenv.py: the `macos` task runs a fixed  *)
(* ordered list of setup steps, one after the other.  Each step reads the  *)
(* machine's state (files, directories, installed tools), skips what is    *)
(* already there and otherwise issues external commands, network requests  *)
(* or file writes.  Every statement of a step that touches the outside     *)
(* world is one action; an external command either succeeds or fails.      *)
(***************************************************************************)
EXTENDS Integers, Sequences, FiniteSets, TLC

\* ------------------------------------------------------------------ bounds
MaxRuns == 2      \* invocations of the tool on the same machine
MaxFail == 2      \* longest finite run of non-success responses of the endpoint
CounterCap == MaxFail + 8   \* counters saturate here (endless retry loop)

\* script of an endpoint that never returns success: a value outside 0..MaxFail
Never == 0 - 1

Inc(c) == IF c < CounterCap THEN c + 1 ELSE c

\* ------------------------------------------------------------- step list
\* the list with the git hooks installed before the repositories are cloned
MacosFuncs_hooks_before_clone ==
    << "ssh_keys", "create_dir_data", "create_dir_toolchain", "create_dir_bin",
       "evergreen_yaml", "install_githooks", "clone_repos", "download_clang_format",
       "download_eslint", "download_evergreen", "install_ninja",
       "setup_mongo_repo_env", "install_shell_profile", "post_task_instructions" >>

\* the list with the credential exchange moved behind the downloads
MacosFuncs_evergreen_after_downloads ==
    << "ssh_keys", "create_dir_data", "create_dir_toolchain", "create_dir_bin",
       "clone_repos", "download_clang_format", "download_eslint",
       "download_evergreen", "evergreen_yaml", "install_ninja",
       "setup_mongo_repo_env", "install_githooks", "install_shell_profile",
       "post_task_instructions" >>

\* macos(): the fixed list `funcs`, by the name of the function each lambda calls
MacosFuncs ==
    << "ssh_keys", "create_dir_data", "create_dir_toolchain", "create_dir_bin",
       "evergreen_yaml", "clone_repos", "download_clang_format", "download_eslint",
       "download_evergreen", "install_ninja", "setup_mongo_repo_env",
       "install_githooks", "install_shell_profile", "post_task_instructions" >>

\* step lists the for loop of macos() is run over: the real one and the empty one
StepLists == { <<>>, MacosFuncs }

\* the directory a create_dir lambda is bound to
DirOf(f) == CASE f = "create_dir_data" -> "/data"
              [] f = "create_dir_toolchain" -> "/opt/mongodbtoolchain"
              [] OTHER -> "bin"

CreateDirFuncs == {"create_dir_data", "create_dir_toolchain", "create_dir_bin"}

\* first program position of the function a lambda calls
EntryPc(f) == IF f \in CreateDirFuncs THEN "create_dir" ELSE f

\* config.REQUIRED_REPOS, in the order install_githooks names their directories
REQUIRED_REPOS == << "kernel-tools", "mongo" >>

RepoPath(r) == IF r = "mongo" THEN "repo:mongo" ELSE "repo:kernel-tools"

\* ------------------------------------------------------- external state
Paths ==
    { "ssh_dir", "ssh_key", "ssh_config",
      "/data", "/opt/mongodbtoolchain", "bin",
      "repo_root", "repo:mongo", "repo:kernel-tools",
      "bin/llvm-3.8.0.tar.xz", "bin/clang+llvm-3.8.0-x86_64-apple-darwin",
      "bin/llvm-3.8.0", "bin/clang-format",
      "bin/eslint.tar.xz", "bin/eslint-Darwin-x86_64", "bin/eslint",
      "bin/evergreen", "evergreen_exec",
      "ninja", "venv", "build.ninja", "compiledb",
      "hooks_dir", "hooks/mongo", "hooks_installed",
      "config_dir", "profile" }

\* "other": a directory owned by another user; "partial": a truncated download
FileValues == {"absent", "present", "other", "partial"}

\* pathlib.Path.exists()
Exists(f, p) == f[p] # "absent"

\* d.exists() and d.owner() == config.USER
OwnedByUser(f, p) == f[p] = "present"

\* the credential file: absent, written by evergreen_yaml, or of foreign origin
Absent == <<>>
Foreign == << "foreign" >>

Users == {"u1", "u2"}
ApiKeys == {"k1", "k2"}
Missing == "missing"

\* evergreen_yaml_template.format(user, api_key)
evergreen_yaml_template(user, api_key) == << "evergreen.yml", user, api_key >>

NoBody == [user |-> Missing, api_key |-> Missing]
NoRes == [status_code |-> 0, body |-> NoBody]

\* bodies of a success response: the expected shape, or one lacking a key
Bodies == [user : Users \cup {Missing}, api_key : ApiKeys \cup {Missing}]

VARIABLES
    funcs,        \* the ordered step list of this run
    run,          \* number of the current invocation of the tool
    prev,         \* how the previous invocation ended ("none" for the first)
    state,        \* NotStarted, RunningStep, Finished, HaltedForManualAction, Aborted
    i,            \* position in funcs of the current step (0 before the first)
    pc,           \* position inside the current step
    exitStatus,   \* process exit status, -1 while running
    exc,          \* exception the current step's action raised, "none" if none
    started,      \* per step: times its action was invoked in this run
    returned,     \* per step: times its action returned normally in this run
    fs,           \* ExternalState: path -> FileValues
    evgFile,      \* ExternalState: content of ~/.evergreen.yml
    fs0, evg0,    \* ExternalState when the current step was invoked
    effects,      \* side effects issued by the current step invocation
    requests,     \* POSTs sent by the current step invocation
    prompts,      \* req_input prompts answered in the current step invocation
    resets,       \* conf.reset_jira_credentials() calls in the current step invocation
    writes,       \* writes of the credential file in the current step invocation
    creds,        \* the Jira credentials held by conf: "unset" or "held"
    res,          \* last response of the remote endpoint
    scriptN,      \* endpoint script: non-success responses before the success
    failsLeft,    \* non-success responses the script still holds
    j,            \* clone_repos: index into REQUIRED_REPOS
    cmdq,         \* setup_mongo_repo_env: commands run_cmds still has to run
    printed,      \* ssh_keys: the rerun instructions were printed
    answer,       \* ssh_keys: what the operator typed at the prompt, "none" before
    asked         \* the current step invocation has asked the operator for input

orchVars == <<state, i, pc, exitStatus, exc, started, returned>>
runVars == <<funcs, run, prev>>
extVars == <<fs, evgFile>>
snapVars == <<fs0, evg0>>
cntVars == <<effects, requests, prompts, resets, writes>>
evgVars == <<creds, res, scriptN, failsLeft>>
locVars == <<j, cmdq, printed, answer, asked>>
vars == <<orchVars, runVars, extVars, snapVars, cntVars, evgVars, locVars>>

Terminal == {"Finished", "HaltedForManualAction", "Aborted"}

\* ------------------------------------------------------------------ Init
\* a machine the tool has not touched: the operator may already have an SSH key,
\* a credential file, the three directories (theirs or another user's), ninja
\* and, in their own bin directory, the evergreen client
FreshFs(key, dd, dt, db, nj, ev) ==
    [p \in Paths |->
        CASE p \in {"ssh_dir", "ssh_key"} -> IF key THEN "present" ELSE "absent"
          [] p = "/data" -> dd
          [] p = "/opt/mongodbtoolchain" -> dt
          [] p = "bin" -> db
          [] p = "ninja" -> IF nj THEN "present" ELSE "absent"
          [] p = "bin/evergreen" -> IF ev THEN "present" ELSE "absent"
          [] OTHER -> "absent"]

DirValues == {"absent", "other", "present"}

ZeroCount == [k \in 1..Len(MacosFuncs) |-> 0]

Init ==
    /\ funcs \in StepLists
    /\ run = 1
    /\ prev = "none"
    /\ state = "NotStarted"
    /\ i = 0
    /\ pc = "for"
    /\ exitStatus = -1
    /\ exc = "none"
    /\ started = ZeroCount
    /\ returned = ZeroCount
    /\ \E key \in BOOLEAN, nj \in BOOLEAN, ev \in BOOLEAN,
          dd \in DirValues, dt \in DirValues, db \in DirValues :
          /\ ev => db = "present"
          /\ fs = FreshFs(key, dd, dt, db, nj, ev)
    /\ evgFile \in {Absent, Foreign}
    /\ fs0 = fs
    /\ evg0 = evgFile
    /\ effects = 0 /\ requests = 0 /\ prompts = 0 /\ resets = 0 /\ writes = 0
    /\ creds = "unset"
    /\ res = NoRes
    /\ scriptN = 0
    /\ failsLeft = 0
    /\ j = 0
    /\ cmdq = <<>>
    /\ printed = FALSE
    /\ answer = "none"
    /\ asked = FALSE

\* ---------------------------------------------------- control-flow helpers
\* the step moves to position l of its own code
Goto(l) ==
    /\ pc' = l
    /\ UNCHANGED <<state, i, exitStatus, exc, started, returned>>

\* log_func(func, label): what the runner lets out of an exception raised by the action
log_func_raises(e) == e

\* the loop catches the exception and goes on with the next step
Unwind_continue(e) ==
    /\ pc' = "for"
    /\ UNCHANGED <<state, exitStatus, i, started, returned>>

\* every exception ends the process with status 0
Unwind_exit_zero(e) ==
    /\ state' = IF e = "SystemExit" THEN "HaltedForManualAction" ELSE "Aborted"
    /\ exitStatus' = 0
    /\ pc' = "exited"
    /\ UNCHANGED <<i, started, returned>>

\* an exception leaves the for loop of macos(): the task ends, SystemExit(0) as a
\* successful exit and anything else as an error
Unwind(e) ==
    /\ state' = IF e = "SystemExit" THEN "HaltedForManualAction" ELSE "Aborted"
    /\ exitStatus' = IF e = "SystemExit" THEN 0 ELSE 1
    /\ pc' = "exited"
    /\ UNCHANGED <<i, started, returned>>

\* the exception is swallowed and the action counts as returned
Raise_swallowed(e) ==
    /\ exc' = e
    /\ pc' = "action_returned"
    /\ UNCHANGED <<state, i, exitStatus, started, returned>>

\* the action of the current step raises e
Raise(e) ==
    /\ exc' = e
    /\ Unwind(log_func_raises(e))

\* one more side effect of the current step, nothing else counted
Effect == effects' = Inc(effects) /\ UNCHANGED <<requests, prompts, resets, writes>>

Running(l) == state = "RunningStep" /\ pc = l

\* ------------------------------------------------------------ orchestrator
\* an exhausted loop that ran no step at all counts as a failure
ForNext_empty_is_error ==
    /\ state \in {"NotStarted", "RunningStep"}
    /\ pc = "for"
    /\ IF i < Len(funcs)
         THEN /\ i' = i + 1
              /\ state' = "RunningStep"
              /\ pc' = "log_func"
              /\ UNCHANGED exitStatus
         ELSE /\ state' = IF i = 0 THEN "Aborted" ELSE "Finished"
              /\ exitStatus' = IF i = 0 THEN 1 ELSE 0
              /\ pc' = "exited"
              /\ UNCHANGED i
    /\ UNCHANGED <<exc, started, returned, runVars, extVars, snapVars, cntVars, evgVars, locVars>>

\* macos(): `for func in funcs:` takes the next step or ends the task
ForNext ==
    /\ state \in {"NotStarted", "RunningStep"}
    /\ pc = "for"
    /\ IF i < Len(funcs)
         THEN /\ i' = i + 1
              /\ state' = "RunningStep"
              /\ pc' = "log_func"
              /\ UNCHANGED exitStatus
         ELSE /\ state' = "Finished"
              /\ exitStatus' = 0
              /\ pc' = "exited"
              /\ UNCHANGED i
    /\ UNCHANGED <<exc, started, returned, runVars, extVars, snapVars, cntVars, evgVars, locVars>>

\* log_func: logs the label and invokes the action
LogFuncInvoke ==
    /\ Running("log_func")
    /\ started' = [started EXCEPT ![i] = @ + 1]
    /\ pc' = EntryPc(funcs[i])
    /\ fs0' = fs /\ evg0' = evgFile
    /\ effects' = 0 /\ requests' = 0 /\ prompts' = 0 /\ resets' = 0 /\ writes' = 0
    /\ res' = NoRes /\ scriptN' = 0 /\ failsLeft' = 0
    /\ j' = 0 /\ cmdq' = <<>> /\ printed' = FALSE /\ answer' = "none" /\ asked' = FALSE
    /\ UNCHANGED <<state, i, exitStatus, exc, returned, runVars, extVars, creds>>

\* log_func: the action returned, logs completion and returns to the loop
LogFuncDone ==
    /\ Running("action_returned")
    /\ returned' = [returned EXCEPT ![i] = @ + 1]
    /\ pc' = "for"
    /\ UNCHANGED <<state, i, exitStatus, exc, started, runVars, extVars, snapVars, cntVars, evgVars, locVars>>

\* ---------------------------------------------------------------- ssh_keys
Answers == {"skip", "Skip", "", "y"}

\* ssh_dir.mkdir(exist_ok=True); if config.SSH_KEY_FILE.is_file(): return
ssh_keys ==
    /\ Running("ssh_keys")
    /\ fs' = [fs EXCEPT !["ssh_dir"] = "present"]
    /\ effects' = IF Exists(fs, "ssh_dir") THEN effects ELSE Inc(effects)
    /\ IF Exists(fs, "ssh_key") THEN Goto("action_returned") ELSE Goto("ssh_write_config")
    /\ UNCHANGED <<runVars, evgFile, snapVars, requests, prompts, resets, writes, evgVars, locVars>>

\* with open(ssh_dir / 'config', 'w') as fh: fh.write(...)
ssh_write_config ==
    /\ Running("ssh_write_config")
    /\ fs' = [fs EXCEPT !["ssh_config"] = "present"]
    /\ Effect
    /\ Goto("ssh_req_input")
    /\ UNCHANGED <<runVars, evgFile, snapVars, evgVars, locVars>>

\* the answer is compared without regard to case
ssh_req_input_any_case ==
    /\ Running("ssh_req_input")
    /\ \E ans \in Answers :
          /\ answer' = ans
          /\ IF ans \notin {"skip", "Skip"} THEN Goto("ssh_open_browser") ELSE Goto("action_returned")
    /\ prompts' = Inc(prompts)
    /\ asked' = TRUE
    /\ UNCHANGED <<runVars, extVars, snapVars, effects, requests, resets, writes, evgVars, j, cmdq, printed>>

\* res = req_input(...); if res != 'skip': ... else: return
ssh_req_input ==
    /\ Running("ssh_req_input")
    /\ \E ans \in Answers :
          /\ answer' = ans
          /\ IF ans # "skip" THEN Goto("ssh_open_browser") ELSE Goto("action_returned")
    /\ prompts' = Inc(prompts)
    /\ asked' = TRUE
    /\ UNCHANGED <<runVars, extVars, snapVars, effects, requests, resets, writes, evgVars, j, cmdq, printed>>

\* webbrowser.open(config.GITHUB_SSH_HELP_URL)
ssh_open_browser ==
    /\ Running("ssh_open_browser")
    /\ Effect
    /\ Goto("ssh_instructions")
    /\ UNCHANGED <<runVars, extVars, snapVars, evgVars, locVars>>

\* get_logger().info(actionable('Once you've generated SSH keys ... please rerun'))
ssh_instructions ==
    /\ Running("ssh_instructions")
    /\ printed' = TRUE
    /\ Goto("ssh_exit")
    /\ UNCHANGED <<runVars, extVars, snapVars, cntVars, evgVars, j, cmdq, answer, asked>>

\* the step returns instead of ending the process
ssh_exit_returns ==
    /\ Running("ssh_exit")
    /\ Goto("action_returned")
    /\ UNCHANGED <<runVars, extVars, snapVars, cntVars, evgVars, locVars>>

\* sys.exit(0)
ssh_exit ==
    /\ Running("ssh_exit")
    /\ Raise("SystemExit")
    /\ UNCHANGED <<runVars, extVars, snapVars, cntVars, evgVars, locVars>>

\* -------------------------------------------------------------- create_dir
\* the check looks at existence only, not at the owner
create_dir_exists_only ==
    /\ Running("create_dir")
    /\ IF Exists(fs, DirOf(funcs[i])) THEN Goto("action_returned") ELSE Goto("sudo_mkdir")
    /\ UNCHANGED <<runVars, extVars, snapVars, cntVars, evgVars, locVars>>

\* no ownership check: the privileged commands are always issued
create_dir_unguarded ==
    /\ Running("create_dir")
    /\ Goto("sudo_mkdir")
    /\ UNCHANGED <<runVars, extVars, snapVars, cntVars, evgVars, locVars>>

\* if d.exists() and d.owner() == config.USER: return True
create_dir ==
    /\ Running("create_dir")
    /\ IF OwnedByUser(fs, DirOf(funcs[i])) THEN Goto("action_returned") ELSE Goto("sudo_mkdir")
    /\ UNCHANGED <<runVars, extVars, snapVars, cntVars, evgVars, locVars>>

\* ctx.sudo(f'mkdir -p {d}', warn=False, password=conf.get_sudo_pwd(ctx)): asks for
\* the sudo password and creates d, owned by root, when absent
sudo_mkdir ==
    /\ Running("sudo_mkdir")
    /\ Effect
    /\ asked' = TRUE
    /\ \/ /\ fs' = [fs EXCEPT ![DirOf(funcs[i])] = IF @ = "absent" THEN "other" ELSE @]
          /\ Goto("sudo_chown")
       \/ /\ Raise("UnexpectedExit")
          /\ UNCHANGED fs
    /\ UNCHANGED <<runVars, evgFile, snapVars, evgVars, j, cmdq, printed, answer>>

\* ctx.sudo(f'chown {config.USER} {d}', warn=False, ...)
sudo_chown ==
    /\ Running("sudo_chown")
    /\ Effect
    /\ \/ /\ Exists(fs, DirOf(funcs[i]))
          /\ fs' = [fs EXCEPT ![DirOf(funcs[i])] = "present"]
          /\ Goto("action_returned")
       \/ /\ Raise("UnexpectedExit")
          /\ UNCHANGED fs
    /\ UNCHANGED <<runVars, evgFile, snapVars, evgVars, locVars>>

\* ---------------------------------------------------------- evergreen_yaml
\* no check of the credential file: the loop is always entered
evergreen_yaml_unguarded ==
    /\ Running("evergreen_yaml")
    /\ Goto("evg_post")
    /\ \E n \in (0..MaxFail) \cup {Never} : scriptN' = n /\ failsLeft' = n
    /\ UNCHANGED <<runVars, extVars, snapVars, cntVars, creds, res, locVars>>

\* if config.EVG_CONFIG_FILE.exists(): (log) ... else: enter the retry loop.
\* The endpoint's script is fixed when the loop is entered.
evergreen_yaml ==
    /\ Running("evergreen_yaml")
    /\ IF evgFile # Absent
         THEN /\ Goto("action_returned")
              /\ UNCHANGED <<scriptN, failsLeft>>
         ELSE /\ Goto("evg_post")
              /\ \E n \in (0..MaxFail) \cup {Never} : scriptN' = n /\ failsLeft' = n
    /\ UNCHANGED <<runVars, extVars, snapVars, cntVars, creds, res, locVars>>

\* res = requests.post(settings_url, json={'username': conf.username, 'password': conf.jira_pwd})
evg_post ==
    /\ Running("evg_post")
    /\ creds' = "held"
    /\ asked' = TRUE
    /\ requests' = Inc(requests)
    /\ effects' = Inc(effects)
    /\ IF failsLeft # 0
         THEN /\ res' = [status_code |-> 401, body |-> NoBody]
              /\ failsLeft' = IF failsLeft = Never THEN Never ELSE failsLeft - 1
         ELSE /\ \E b \in Bodies : res' = [status_code |-> 200, body |-> b]
              /\ UNCHANGED failsLeft
    /\ Goto("evg_status")
    /\ UNCHANGED <<runVars, extVars, snapVars, prompts, resets, writes, scriptN, j, cmdq, printed, answer>>

\* a non-success response is retried without the prompt
evg_status_no_prompt ==
    /\ Running("evg_status")
    /\ IF res.status_code # 200 THEN Goto("evg_reset") ELSE Goto("evg_format")
    /\ UNCHANGED <<runVars, extVars, snapVars, cntVars, evgVars, locVars>>

\* the loop gives up after the second non-success response
evg_status_gives_up ==
    /\ Running("evg_status")
    /\ IF res.status_code # 200
         THEN IF requests >= 2 THEN Raise("GiveUp") ELSE Goto("evg_error")
         ELSE Goto("evg_format")
    /\ UNCHANGED <<runVars, extVars, snapVars, cntVars, evgVars, locVars>>

\* if res.status_code != 200:
evg_status ==
    /\ Running("evg_status")
    /\ IF res.status_code # 200 THEN Goto("evg_error") ELSE Goto("evg_format")
    /\ UNCHANGED <<runVars, extVars, snapVars, cntVars, evgVars, locVars>>

\* get_logger().error('Failed to fetch API key from evergreen. Error: %s', str(res))
evg_error ==
    /\ Running("evg_error")
    /\ Goto("evg_req_input")
    /\ UNCHANGED <<runVars, extVars, snapVars, cntVars, evgVars, locVars>>

\* after the prompt the next request is sent without resetting the credentials
evg_req_input_no_reset ==
    /\ Running("evg_req_input")
    /\ prompts' = Inc(prompts)
    /\ asked' = TRUE
    /\ Goto("evg_post")
    /\ UNCHANGED <<runVars, extVars, snapVars, effects, requests, resets, writes, evgVars, j, cmdq, printed, answer>>

\* req_input('Press any key to retry...')
evg_req_input ==
    /\ Running("evg_req_input")
    /\ prompts' = Inc(prompts)
    /\ asked' = TRUE
    /\ Goto("evg_reset")
    /\ UNCHANGED <<runVars, extVars, snapVars, effects, requests, resets, writes, evgVars, j, cmdq, printed, answer>>

\* conf.reset_jira_credentials(); continue
evg_reset ==
    /\ Running("evg_reset")
    /\ creds' = "unset"
    /\ resets' = Inc(resets)
    /\ Goto("evg_post")
    /\ UNCHANGED <<runVars, extVars, snapVars, effects, requests, prompts, writes, res, scriptN, failsLeft, locVars>>

\* a success response whose body lacks a key is treated as a failed request
evg_format_retries ==
    /\ Running("evg_format")
    /\ IF res.body.user = Missing \/ res.body.api_key = Missing
         THEN Goto("evg_error")
         ELSE Goto("evg_write")
    /\ UNCHANGED <<runVars, extVars, snapVars, cntVars, evgVars, locVars>>

\* res_json = res.json(); evergreen_yaml_template.format(res_json['user'], res_json['api_key'])
\* raises KeyError when the body lacks either key
evg_format ==
    /\ Running("evg_format")
    /\ IF res.body.user = Missing \/ res.body.api_key = Missing
         THEN Raise("KeyError")
         ELSE Goto("evg_write")
    /\ UNCHANGED <<runVars, extVars, snapVars, cntVars, evgVars, locVars>>

\* with open(config.EVG_CONFIG_FILE, 'w') as fh: fh.write(evg_config); break; return True
evg_write ==
    /\ Running("evg_write")
    /\ evgFile' = evergreen_yaml_template(res.body.user, res.body.api_key)
    /\ writes' = Inc(writes)
    /\ effects' = Inc(effects)
    /\ Goto("action_returned")
    /\ UNCHANGED <<runVars, fs, snapVars, requests, prompts, resets, evgVars, locVars>>

\* ------------------------------------------------------------- clone_repos
\* config.REPO_ROOT.mkdir(exist_ok=True); the loop over REQUIRED_REPOS starts
clone_repos ==
    /\ Running("clone_repos")
    /\ fs' = [fs EXCEPT !["repo_root"] = "present"]
    /\ effects' = IF Exists(fs, "repo_root") THEN effects ELSE Inc(effects)
    /\ j' = 1
    /\ Goto("clone_check")
    /\ UNCHANGED <<runVars, evgFile, snapVars, requests, prompts, resets, writes, evgVars, cmdq, printed, answer, asked>>

\* an existing repository ends the loop
clone_check_stops_at_existing ==
    /\ Running("clone_check")
    /\ IF j > Len(REQUIRED_REPOS)
         THEN Goto("action_returned") /\ UNCHANGED j
         ELSE IF Exists(fs, RepoPath(REQUIRED_REPOS[j]))
                THEN Goto("action_returned") /\ UNCHANGED j
                ELSE Goto("git_clone") /\ UNCHANGED j
    /\ UNCHANGED <<runVars, extVars, snapVars, cntVars, evgVars, cmdq, printed, answer, asked>>

\* for repo_config in config.REQUIRED_REPOS: if repo_dir.exists(): (warn) else: ...
clone_check ==
    /\ Running("clone_check")
    /\ IF j > Len(REQUIRED_REPOS)
         THEN Goto("action_returned") /\ UNCHANGED j
         ELSE IF Exists(fs, RepoPath(REQUIRED_REPOS[j]))
                THEN Goto("clone_check") /\ j' = j + 1
                ELSE Goto("git_clone") /\ UNCHANGED j
    /\ UNCHANGED <<runVars, extVars, snapVars, cntVars, evgVars, cmdq, printed, answer, asked>>

\* ctx.run(f'git clone {repo_config.remote} {repo_dir}', hide=False)
git_clone ==
    /\ Running("git_clone")
    /\ Effect
    /\ \/ /\ fs' = [fs EXCEPT ![RepoPath(REQUIRED_REPOS[j])] = "present"]
          /\ j' = j + 1
          /\ Goto("clone_check")
       \/ /\ Raise("UnexpectedExit")
          /\ UNCHANGED <<fs, j>>
    /\ UNCHANGED <<runVars, evgFile, snapVars, evgVars, cmdq, printed, answer, asked>>

\* ---------------------------------------------------------------- downloads
\* the tarball a step installs: its archive, the directory it unpacks to and
\* the name it is given
Tarball(f) ==
    IF f = "download_clang_format"
      THEN [archive |-> "bin/llvm-3.8.0.tar.xz",
            default_name |-> "bin/clang+llvm-3.8.0-x86_64-apple-darwin",
            pretty_name |-> "bin/llvm-3.8.0"]
      ELSE [archive |-> "bin/eslint.tar.xz",
            default_name |-> "bin/eslint-Darwin-x86_64",
            pretty_name |-> "bin/eslint"]

\* the file _do_download fetches for the current step
DownloadTarget(f) == IF f = "download_evergreen" THEN "bin/evergreen" ELSE Tarball(f).archive

\* where the current step continues after _do_download
AfterDownload(f) == IF f = "download_evergreen" THEN "chmod_evergreen" ELSE "tar_x"

\* where the current step continues after _download_executable_tarball
AfterTarball(f) == IF f = "download_clang_format" THEN "ln_clang_format" ELSE "action_returned"

\* no check of the installed link: the tarball routine is always called
download_clang_format_unguarded ==
    /\ Running("download_clang_format")
    /\ Goto("tarball")
    /\ UNCHANGED <<runVars, extVars, snapVars, cntVars, evgVars, locVars>>

\* if (bin_dir / 'clang-format').exists(): return
download_clang_format ==
    /\ Running("download_clang_format")
    /\ IF Exists(fs, "bin/clang-format") THEN Goto("action_returned") ELSE Goto("tarball")
    /\ UNCHANGED <<runVars, extVars, snapVars, cntVars, evgVars, locVars>>

\* download_eslint calls _download_executable_tarball at once
download_eslint ==
    /\ Running("download_eslint")
    /\ Goto("tarball")
    /\ UNCHANGED <<runVars, extVars, snapVars, cntVars, evgVars, locVars>>

\* _download_executable_tarball: if (bin_dir / pretty_name).exists(): return
tarball ==
    /\ Running("tarball")
    /\ IF Exists(fs, Tarball(funcs[i]).pretty_name)
         THEN Goto(AfterTarball(funcs[i]))
         ELSE Goto("do_download")
    /\ UNCHANGED <<runVars, extVars, snapVars, cntVars, evgVars, locVars>>

\* _do_download: if local_path.exists(): (warn) else: ...
do_download ==
    /\ Running("do_download")
    /\ IF Exists(fs, DownloadTarget(funcs[i]))
         THEN Goto(AfterDownload(funcs[i]))
         ELSE Goto("curl")
    /\ UNCHANGED <<runVars, extVars, snapVars, cntVars, evgVars, locVars>>

\* a failed transfer is cleaned up by removing the whole bin directory
curl_failure_wipes_bin ==
    /\ Running("curl")
    /\ Effect
    /\ \/ /\ fs' = [fs EXCEPT ![DownloadTarget(funcs[i])] = "present"]
          /\ Goto(AfterDownload(funcs[i]))
       \/ /\ fs' = [fs EXCEPT ![DownloadTarget(funcs[i])] = "absent", !["bin"] = "absent"]
          /\ Raise("UnexpectedExit")
    /\ UNCHANGED <<runVars, evgFile, snapVars, evgVars, locVars>>

\* ctx.run(f'curl -o {relative_local} {remote}'): a failed transfer may leave a
\* truncated file behind
curl ==
    /\ Running("curl")
    /\ Effect
    /\ \/ /\ fs' = [fs EXCEPT ![DownloadTarget(funcs[i])] = "present"]
          /\ Goto(AfterDownload(funcs[i]))
       \/ /\ \E left \in {"absent", "partial"} :
                fs' = [fs EXCEPT ![DownloadTarget(funcs[i])] = left]
          /\ Raise("UnexpectedExit")
    /\ UNCHANGED <<runVars, evgFile, snapVars, evgVars, locVars>>

\* ctx.run(f'tar -xvzf {pretty_name}.tar.xz'): unpacks a complete archive
tar_x ==
    /\ Running("tar_x")
    /\ Effect
    /\ \/ /\ fs[Tarball(funcs[i]).archive] = "present"
          /\ fs' = [fs EXCEPT ![Tarball(funcs[i]).default_name] = "present"]
          /\ Goto("rm_archive")
       \/ /\ Raise("UnexpectedExit")
          /\ UNCHANGED fs
    /\ UNCHANGED <<runVars, evgFile, snapVars, evgVars, locVars>>

\* ctx.run(f'rm -f {pretty_name}.tar.xz')
rm_archive ==
    /\ Running("rm_archive")
    /\ Effect
    /\ \/ /\ fs' = [fs EXCEPT ![Tarball(funcs[i]).archive] = "absent"]
          /\ Goto("mv_pretty")
       \/ /\ Raise("UnexpectedExit")
          /\ UNCHANGED fs
    /\ UNCHANGED <<runVars, evgFile, snapVars, evgVars, locVars>>

\* ctx.run(f'mv {default_name} {pretty_name}')
mv_pretty ==
    /\ Running("mv_pretty")
    /\ Effect
    /\ \/ /\ Exists(fs, Tarball(funcs[i]).default_name)
          /\ fs' = [fs EXCEPT ![Tarball(funcs[i]).default_name] = "absent",
                              ![Tarball(funcs[i]).pretty_name] = "present"]
          /\ Goto(AfterTarball(funcs[i]))
       \/ /\ Raise("UnexpectedExit")
          /\ UNCHANGED fs
    /\ UNCHANGED <<runVars, evgFile, snapVars, evgVars, locVars>>

\* ctx.run(f'ln -s {bin_dir / pretty_name / "bin" / "clang-format"} clang-format')
ln_clang_format ==
    /\ Running("ln_clang_format")
    /\ Effect
    /\ \/ /\ ~Exists(fs, "bin/clang-format")
          /\ fs' = [fs EXCEPT !["bin/clang-format"] = "present"]
          /\ Goto("action_returned")
       \/ /\ Raise("UnexpectedExit")
          /\ UNCHANGED fs
    /\ UNCHANGED <<runVars, evgFile, snapVars, evgVars, locVars>>

\* if (bin_dir / 'evergreen').exists(): (warn) else: _do_download(ctx, dc)
download_evergreen ==
    /\ Running("download_evergreen")
    /\ IF Exists(fs, "bin/evergreen") THEN Goto("chmod_evergreen") ELSE Goto("do_download")
    /\ UNCHANGED <<runVars, extVars, snapVars, cntVars, evgVars, locVars>>

\* ctx.run('chmod +x evergreen'), always
chmod_evergreen ==
    /\ Running("chmod_evergreen")
    /\ Effect
    /\ \/ /\ Exists(fs, "bin/evergreen")
          /\ fs' = [fs EXCEPT !["evergreen_exec"] = "present"]
          /\ Goto("action_returned")
       \/ /\ Raise("UnexpectedExit")
          /\ UNCHANGED fs
    /\ UNCHANGED <<runVars, evgFile, snapVars, evgVars, locVars>>

\* ------------------------------------------------------------ install_ninja
\* try: ctx.run('ninja --version') except UnexpectedExit: ... else: (warn)
install_ninja ==
    /\ Running("install_ninja")
    /\ Effect
    /\ IF Exists(fs, "ninja") THEN Goto("action_returned") ELSE Goto("brew_install")
    /\ UNCHANGED <<runVars, extVars, snapVars, evgVars, locVars>>

\* ctx.run('brew install ninja')
brew_install ==
    /\ Running("brew_install")
    /\ Effect
    /\ \/ /\ fs' = [fs EXCEPT !["ninja"] = "present"]
          /\ Goto("action_returned")
       \/ /\ Raise("UnexpectedExit")
          /\ UNCHANGED fs
    /\ UNCHANGED <<runVars, evgFile, snapVars, evgVars, locVars>>

\* ----------------------------------------------------- setup_mongo_repo_env
\* what a command of setup_mongo_repo_env needs in order to succeed
CmdCanSucceed(cmd, f) ==
    /\ Exists(f, "repo:mongo")
    /\ cmd \in {"pip install -r", "pip install regex", "scons build.ninja"} => Exists(f, "venv")
    /\ cmd = "ninja compiledb" => Exists(f, "ninja") /\ Exists(f, "build.ninja")

\* what it leaves behind
CmdEffect(cmd, f) ==
    CASE cmd = "virtualenv" -> [f EXCEPT !["venv"] = "present"]
      [] cmd = "scons build.ninja" -> [f EXCEPT !["build.ninja"] = "present"]
      [] cmd = "ninja compiledb" -> [f EXCEPT !["compiledb"] = "present"]
      [] OTHER -> f

RunCmdsPcs == {"run_cmds_venv", "run_cmds_install", "run_cmds_compiledb"}

AfterRunCmds(l) ==
    CASE l = "run_cmds_venv" -> "install_cmds"
      [] l = "run_cmds_install" -> "compiledb_cmds"
      [] OTHER -> "action_returned"

\* if not (mongo_dir / python3_venv_dir).exists(): run_cmds(install_venv_cmds) else: (warn)
setup_mongo_repo_env ==
    /\ Running("setup_mongo_repo_env")
    /\ IF ~Exists(fs, "venv")
         THEN /\ cmdq' = << "pip install virtualenv", "virtualenv" >>
              /\ Goto("run_cmds_venv")
         ELSE /\ UNCHANGED cmdq
              /\ Goto("install_cmds")
    /\ UNCHANGED <<runVars, extVars, snapVars, cntVars, evgVars, j, printed, answer, asked>>

\* install_cmds = [...]; if not (mongo_dir / 'build.ninja').exists(): install_cmds.append(...)
install_cmds ==
    /\ Running("install_cmds")
    /\ cmdq' = << "pip install -r", "pip install regex" >>
                 \o (IF ~Exists(fs, "build.ninja") THEN << "scons build.ninja" >> ELSE <<>>)
    /\ Goto("run_cmds_install")
    /\ UNCHANGED <<runVars, extVars, snapVars, cntVars, evgVars, j, printed, answer, asked>>

\* compiledb_cmds = ['ninja compiledb']
compiledb_cmds ==
    /\ Running("compiledb_cmds")
    /\ cmdq' = << "ninja compiledb" >>
    /\ Goto("run_cmds_compiledb")
    /\ UNCHANGED <<runVars, extVars, snapVars, cntVars, evgVars, j, printed, answer, asked>>

\* run_cmds: for cmd in cmds: res = ctx.run(cmd)
run_cmds ==
    /\ state = "RunningStep"
    /\ pc \in RunCmdsPcs
    /\ cmdq # <<>>
    /\ Effect
    /\ \/ /\ CmdCanSucceed(Head(cmdq), fs)
          /\ fs' = CmdEffect(Head(cmdq), fs)
          /\ cmdq' = Tail(cmdq)
          /\ IF Tail(cmdq) = <<>> THEN Goto(AfterRunCmds(pc)) ELSE Goto(pc)
       \/ /\ Raise("UnexpectedExit")
          /\ UNCHANGED <<fs, cmdq>>
    /\ UNCHANGED <<runVars, evgFile, snapVars, evgVars, j, printed, answer, asked>>

\* --------------------------------------------------------- install_githooks
\* hooks_dir.mkdir(exist_ok=True, parents=True); if not (hooks_dir / 'mongo').exists(): ...
install_githooks ==
    /\ Running("install_githooks")
    /\ fs' = [fs EXCEPT !["hooks_dir"] = "present"]
    /\ effects' = IF Exists(fs, "hooks_dir") THEN effects ELSE Inc(effects)
    /\ IF ~Exists(fs, "hooks/mongo") THEN Goto("ln_githooks") ELSE Goto("install_hooks")
    /\ UNCHANGED <<runVars, evgFile, snapVars, requests, prompts, resets, writes, evgVars, locVars>>

\* ctx.run(f'ln -s {kernel_tools_dir / "githooks"} {hooks_dir / "mongo"}')
ln_githooks ==
    /\ Running("ln_githooks")
    /\ Effect
    /\ \/ /\ ~Exists(fs, "hooks/mongo")
          /\ fs' = [fs EXCEPT !["hooks/mongo"] = "present"]
          /\ Goto("install_hooks")
       \/ /\ Raise("UnexpectedExit")
          /\ UNCHANGED fs
    /\ UNCHANGED <<runVars, evgFile, snapVars, evgVars, locVars>>

\* with ctx.cd(str(mongo_dir)): ctx.run(f'source buildscripts/install-hooks -f')
install_hooks ==
    /\ Running("install_hooks")
    /\ Effect
    /\ \/ /\ Exists(fs, "repo:mongo")
          /\ fs' = [fs EXCEPT !["hooks_installed"] = "present"]
          /\ Goto("action_returned")
       \/ /\ Raise("UnexpectedExit")
          /\ UNCHANGED fs
    /\ UNCHANGED <<runVars, evgFile, snapVars, evgVars, locVars>>

\* ---------------------------------------------------- install_shell_profile
\* config.CONFIG_DIR.mkdir(parents=True, exist_ok=True); open(profile, 'w') ... fh.write(...)
install_shell_profile ==
    /\ Running("install_shell_profile")
    /\ fs' = [fs EXCEPT !["config_dir"] = "present", !["profile"] = "present"]
    /\ effects' = Inc(IF Exists(fs, "config_dir") THEN effects ELSE Inc(effects))
    /\ Goto("action_returned")
    /\ UNCHANGED <<runVars, evgFile, snapVars, requests, prompts, resets, writes, evgVars, locVars>>

\* --------------------------------------------------- post_task_instructions
\* log_multiline(get_logger().info, lines)
post_task_instructions ==
    /\ Running("post_task_instructions")
    /\ Goto("action_returned")
    /\ UNCHANGED <<runVars, extVars, snapVars, cntVars, evgVars, locVars>>

\* -------------------------------------------------------------------- rerun
\* The operator invokes `workflow setup.macos` again on the machine the last
\* invocation left behind; after a manual follow-up halt they may have generated
\* the SSH key the instructions asked for.
Rerun ==
    /\ state \in Terminal
    /\ run < MaxRuns
    /\ run' = run + 1
    /\ prev' = state
    /\ state' = "NotStarted"
    /\ i' = 0
    /\ pc' = "for"
    /\ exitStatus' = -1
    /\ exc' = "none"
    /\ started' = ZeroCount
    /\ returned' = ZeroCount
    /\ \/ UNCHANGED fs
       \/ /\ state = "HaltedForManualAction"
          /\ fs' = [fs EXCEPT !["ssh_key"] = "present"]
    /\ fs0' = fs' /\ evg0' = evgFile
    /\ effects' = 0 /\ requests' = 0 /\ prompts' = 0 /\ resets' = 0 /\ writes' = 0
    /\ creds' = "unset"
    /\ res' = NoRes /\ scriptN' = 0 /\ failsLeft' = 0
    /\ j' = 0 /\ cmdq' = <<>> /\ printed' = FALSE /\ answer' = "none" /\ asked' = FALSE
    /\ UNCHANGED <<funcs, evgFile>>

\* ------------------------------------------------------------ specification
SshKeysStep ==
    \/ ssh_keys \/ ssh_write_config \/ ssh_req_input
    \/ ssh_open_browser \/ ssh_instructions \/ ssh_exit

CreateDirStep == create_dir \/ sudo_mkdir \/ sudo_chown

EvergreenYamlStep ==
    \/ evergreen_yaml \/ evg_post \/ evg_status \/ evg_error
    \/ evg_req_input \/ evg_reset \/ evg_format \/ evg_write

CloneReposStep == clone_repos \/ clone_check \/ git_clone

DownloadStep ==
    \/ download_clang_format \/ download_eslint \/ download_evergreen
    \/ tarball \/ do_download \/ curl \/ tar_x \/ rm_archive \/ mv_pretty
    \/ ln_clang_format \/ chmod_evergreen

InstallNinjaStep == install_ninja \/ brew_install

SetupMongoRepoEnvStep == setup_mongo_repo_env \/ install_cmds \/ compiledb_cmds \/ run_cmds

InstallGithooksStep == install_githooks \/ ln_githooks \/ install_hooks

Next ==
    \/ ForNext \/ LogFuncInvoke \/ LogFuncDone
    \/ SshKeysStep \/ CreateDirStep \/ EvergreenYamlStep \/ CloneReposStep
    \/ DownloadStep \/ InstallNinjaStep \/ SetupMongoRepoEnvStep
    \/ InstallGithooksStep \/ install_shell_profile \/ post_task_instructions
    \/ Rerun

Spec == Init /\ [][Next]_vars

\* the single thread of control keeps running and the operator answers every prompt
FairSpec == Spec /\ WF_vars(Next)

TypeOK ==
    /\ funcs \in StepLists
    /\ run \in 1..MaxRuns
    /\ state \in {"NotStarted", "RunningStep"} \cup Terminal
    /\ i \in 0..Len(funcs)
    /\ exitStatus \in {-1, 0, 1}
    /\ fs \in [Paths -> FileValues]
    /\ effects \in 0..CounterCap
    /\ requests \in 0..CounterCap

\* ------------------------------------------------------------------ claims
Steps == 1..Len(funcs)

\* the snapshot fs0/evg0 and the per-step counters belong to step i
StepData == i \in Steps /\ pc # "log_func"

\* C1 (fail-fast): when the action of step k raises an unhandled error, the run
\* is Aborted, every step before k was started and has returned exactly once,
\* step k was started exactly once and has not returned, and no later step was
\* started.
C1_FailFast ==
    exc \notin {"none", "SystemExit"} =>
        /\ state = "Aborted"
        /\ i \in Steps
        /\ \A k \in Steps :
              /\ k < i => started[k] = 1 /\ returned[k] = 1
              /\ k = i => started[k] = 1 /\ returned[k] = 0
              /\ k > i => started[k] = 0 /\ returned[k] = 0

C1_Witness ==
    /\ state = "Aborted"
    /\ exc = "UnexpectedExit"
    /\ funcs[i] = "setup_mongo_repo_env"
    /\ returned[i - 1] = 1
    /\ started[i + 1] = 0

\* C2 (manual follow-up halt): once the operator has answered the ssh_keys prompt
\* with anything but "skip", the step goes on to open the browser, print the
\* instructions and exit; the instructions are printed before the exit, the run
\* ends in HaltedForManualAction with exit status 0, and no later step is started.
C2_ManualFollowupHalt ==
    answer \notin {"none", "skip"} =>
        /\ funcs[i] = "ssh_keys"
        /\ ~Exists(fs0, "ssh_key")
        /\ \A k \in Steps : k > i => started[k] = 0
        /\ \/ /\ state = "RunningStep"
              /\ pc \in {"ssh_open_browser", "ssh_instructions", "ssh_exit"}
              /\ pc = "ssh_exit" => printed
              /\ exitStatus = -1
           \/ /\ state = "HaltedForManualAction"
              /\ printed
              /\ exitStatus = 0
              /\ exc = "SystemExit"

C2_Witness ==
    /\ state = "HaltedForManualAction"
    /\ answer = "y"
    /\ printed
    /\ exitStatus = 0

\* the steps whose existence check covers everything the step does
FullyGuarded ==
    {"create_dir_data", "create_dir_toolchain", "create_dir_bin", "evergreen_yaml",
     "clone_repos", "download_clang_format", "download_eslint"}

\* the existence check of step f, evaluated on the state the step was invoked in
Guard(f, f0, e0) ==
    CASE f = "ssh_keys" -> Exists(f0, "ssh_key")
      [] f \in CreateDirFuncs -> OwnedByUser(f0, DirOf(f))
      [] f = "evergreen_yaml" -> e0 # Absent
      [] f = "clone_repos" ->
            \A k \in 1..Len(REQUIRED_REPOS) : Exists(f0, RepoPath(REQUIRED_REPOS[k]))
      [] f = "download_clang_format" -> Exists(f0, "bin/clang-format")
      [] f = "download_eslint" -> Exists(f0, "bin/eslint")
      [] f = "download_evergreen" -> Exists(f0, "bin/evergreen")
      [] f = "install_ninja" -> Exists(f0, "ninja")
      [] f = "setup_mongo_repo_env" -> Exists(f0, "venv") /\ Exists(f0, "build.ninja")
      [] f = "install_githooks" -> Exists(f0, "hooks/mongo")
      [] OTHER -> FALSE

\* the current step has had no side effect and has not failed
NoSideEffect ==
    /\ effects = 0
    /\ requests = 0
    /\ writes = 0
    /\ fs = fs0
    /\ evgFile = evg0

\* C3 as stated (whole-run idempotence): a run that follows a run which reached
\* Finished performs no side effect and ends in Finished.
C3_Original ==
    prev = "Finished" =>
        /\ StepData => effects = 0
        /\ state \in Terminal => state = "Finished"

\* C3 as amended: in a run that follows a run which reached Finished, the fully
\* guarded steps (and ssh_keys when the key file exists) perform no side effect
\* and return; the run can only end in Finished, in an abort of one of the other
\* steps on a failed command, or in the manual follow-up halt of ssh_keys.
C3_SecondRun ==
    prev = "Finished" =>
        /\ (StepData /\ (funcs[i] \in FullyGuarded
                          \/ (funcs[i] = "ssh_keys" /\ Exists(fs0, "ssh_key")))) =>
              NoSideEffect /\ prompts = 0 /\ exc = "none"
        /\ state = "Aborted" =>
              funcs[i] \notin FullyGuarded /\ funcs[i] # "ssh_keys" /\ exc = "UnexpectedExit"
        /\ state = "HaltedForManualAction" =>
              funcs[i] = "ssh_keys" /\ ~Exists(fs0, "ssh_key")

C3_Witness ==
    /\ prev = "Finished"
    /\ state = "Finished"
    /\ funcs = MacosFuncs
    /\ returned = [k \in 1..Len(MacosFuncs) |-> 1]

\* C4 as stated (idempotence law): a step invoked with its existence check true
\* performs no side effect and does not fail.
C4_Original ==
    (StepData /\ Guard(funcs[i], fs0, evg0)) => NoSideEffect /\ exc = "none"

\* C4 as amended: the law holds for ssh_keys, the three create_dir steps,
\* evergreen_yaml, clone_repos, download_clang_format and download_eslint.
C4_GuardedSteps ==
    (StepData /\ Guard(funcs[i], fs0, evg0) /\ funcs[i] \in FullyGuarded \cup {"ssh_keys"}) =>
        /\ NoSideEffect
        /\ prompts = 0
        /\ exc = "none"
        /\ state = "RunningStep"

C4_Witness ==
    /\ Running("action_returned")
    /\ funcs[i] = "download_clang_format"
    /\ Guard(funcs[i], fs0, evg0)
    /\ effects = 0

\* C5 (credential-exchange loop count): when evergreen_yaml returns after having
\* found no credential file, with an endpoint scripted to fail N times, it has
\* sent N+1 requests, answered N prompts, reset the credentials N times and
\* written the file once, with the user and api_key of the last response; while
\* the loop runs it never exceeds these counts, and the step fails only on a
\* success response that lacks the user or the api_key, with nothing written.
C5_LoopCount ==
    (StepData /\ funcs[i] = "evergreen_yaml" /\ evg0 = Absent /\ scriptN # Never) =>
        /\ requests <= scriptN + 1
        /\ prompts <= scriptN /\ resets <= prompts /\ prompts <= resets + 1
        /\ writes <= 1
        /\ pc \in {"action_returned", "for"} =>
              /\ requests = scriptN + 1
              /\ prompts = scriptN
              /\ resets = scriptN
              /\ writes = 1
              /\ res.status_code = 200
              /\ Len(evgFile) = 3
              /\ evgFile[2] = res.body.user /\ evgFile[2] \in Users
              /\ evgFile[3] = res.body.api_key /\ evgFile[3] \in ApiKeys
              /\ exc = "none"
        /\ state \in Terminal =>
              /\ state = "Aborted" /\ exc = "KeyError"
              /\ res.status_code = 200
              /\ res.body.user = Missing \/ res.body.api_key = Missing
              /\ requests = scriptN + 1
              /\ writes = 0 /\ evgFile = Absent

C5_Witness ==
    /\ Running("action_returned")
    /\ funcs[i] = "evergreen_yaml"
    /\ scriptN = MaxFail
    /\ requests = MaxFail + 1
    /\ prompts = MaxFail
    /\ writes = 1
    /\ evgFile = << "evergreen.yml", "u2", "k1" >>

\* C6 (strictly sequential, in-order execution): at most one step is executing,
\* no step is started twice, and a step is started only when every step before
\* it has been started and has returned, whether it did its work or skipped it.
C6_Sequential ==
    /\ \A k \in Steps : started[k] \in {0, 1} /\ returned[k] <= started[k]
    /\ \A k \in Steps : k > 1 /\ started[k] = 1 => started[k - 1] = 1 /\ returned[k - 1] = 1
    /\ Cardinality({k \in Steps : started[k] > returned[k]}) <= 1
    /\ \A k \in Steps : started[k] > returned[k] => k = i
    /\ \A k \in Steps : k > i => started[k] = 0

C6_Witness ==
    /\ Running("log_func")
    /\ i = 3
    /\ started[i] = 0
    /\ returned[i - 1] = 1
    /\ effects = 0

\* C7 (empty list): with an empty step list the orchestrator is only ever
\* NotStarted or Finished, no step is executed, and Finished has exit status 0.
C7_EmptyList ==
    funcs = <<>> =>
        /\ state \in {"NotStarted", "Finished"}
        /\ started = ZeroCount /\ returned = ZeroCount
        /\ i = 0
        /\ effects = 0
        /\ state = "Finished" => exitStatus = 0 /\ exc = "none"

C7_Witness ==
    /\ funcs = <<>>
    /\ state = "Finished"
    /\ exitStatus = 0
    /\ started = ZeroCount

\* a step of the same invocation of the tool
SameRun == run' = run

\* C8 (terminal states and exit status): once a run is Finished,
\* HaltedForManualAction or Aborted nothing changes any more in that run; the exit
\* status is 0 exactly in Finished and HaltedForManualAction, non-zero exactly in
\* Aborted, and unset while the run goes on.
C8_TerminalStates ==
    /\ [][(state \in Terminal /\ SameRun) => UNCHANGED vars]_vars
    /\ [](exitStatus = 0 <=> state \in {"Finished", "HaltedForManualAction"})
    /\ [](exitStatus \notin {0, -1} <=> state = "Aborted")
    /\ [](exitStatus = -1 <=> state \notin Terminal)

C8_Witness ==
    /\ state = "Aborted"
    /\ exitStatus = 1
    /\ funcs[i] = "create_dir_toolchain"
    /\ run = MaxRuns

EvgLoopPcs == {"evg_post", "evg_status", "evg_error", "evg_req_input", "evg_reset", "evg_format", "evg_write"}

\* C9 (credential loop exits on success only): the retry loop is left only with
\* a success response in hand; with an endpoint that never succeeds the step
\* stays in the loop, keeps sending requests and never writes the credential
\* file; with an endpoint that succeeds after finitely many failures, and an
\* operator who answers every prompt, the loop is eventually left.
C9_ExitOnSuccessOnly ==
    /\ [][(pc \in EvgLoopPcs /\ pc' \notin EvgLoopPcs) => res.status_code = 200]_vars
    /\ [](scriptN = Never => pc \in EvgLoopPcs /\ evgFile = Absent /\ state = "RunningStep")
    /\ (scriptN = Never) ~> (requests = CounterCap)
    /\ (pc \in EvgLoopPcs /\ scriptN # Never) ~> (pc \notin EvgLoopPcs)

C9_Witness ==
    /\ Running("evg_reset")
    /\ scriptN = Never
    /\ requests = CounterCap
    /\ evgFile = Absent

\* C10 (credential skip): invoked with the credential file present, evergreen_yaml
\* sends no request, issues no prompt, does not reset the credentials, leaves the
\* file as it was and returns, so that the loop goes on to the next step.
C10_CredentialSkip ==
    (StepData /\ funcs[i] = "evergreen_yaml" /\ evg0 # Absent) =>
        /\ requests = 0 /\ prompts = 0 /\ resets = 0 /\ writes = 0
        /\ creds = "unset"
        /\ evgFile = evg0
        /\ state = "RunningStep"
        /\ pc \in {"evergreen_yaml", "action_returned", "for"}
        /\ exc = "none"

C10_Witness ==
    /\ Running("for")
    /\ funcs[i] = "evergreen_yaml"
    /\ evg0 = Foreign
    /\ evgFile = Foreign
    /\ returned[i] = 1

\* what step f leaves on the machine when it returns normally
Artifacts(f) ==
    CASE f = "ssh_keys" -> {"ssh_dir"}
      [] f \in CreateDirFuncs -> {DirOf(f)}
      [] f = "clone_repos" -> {"repo_root", "repo:mongo", "repo:kernel-tools"}
      [] f = "download_clang_format" -> {"bin/llvm-3.8.0", "bin/clang-format"}
      [] f = "download_eslint" -> {"bin/eslint"}
      [] f = "download_evergreen" -> {"bin/evergreen", "evergreen_exec"}
      [] f = "install_ninja" -> {"ninja"}
      [] f = "setup_mongo_repo_env" -> {"venv", "build.ninja", "compiledb"}
      [] f = "install_githooks" -> {"hooks_dir", "hooks/mongo", "hooks_installed"}
      [] f = "install_shell_profile" -> {"config_dir", "profile"}
      [] OTHER -> {}

\* C11 (no rollback on abort): when the run is Aborted at step k, everything the
\* steps before k left on the machine is still there, as it was when step k was
\* invoked: their files and directories and the credential file.
C11_NoRollback ==
    state = "Aborted" =>
        \A m \in 1..(i - 1) :
            /\ \A p \in Artifacts(funcs[m]) : Exists(fs, p) /\ fs[p] = fs0[p]
            /\ funcs[m] = "evergreen_yaml" => evgFile # Absent /\ evgFile = evg0

C11_Witness ==
    /\ state = "Aborted"
    /\ run = 1
    /\ funcs[i] = "download_eslint"
    /\ fs["bin/eslint.tar.xz"] = "partial"
    /\ Len(evgFile) = 3
    /\ Exists(fs, "bin/clang-format")

\* the external command at the current position can succeed on the machine as it is
CanSucceedHere ==
    CASE pc = "sudo_chown" -> Exists(fs, DirOf(funcs[i]))
      [] pc = "tar_x" -> fs[Tarball(funcs[i]).archive] = "present"
      [] pc = "mv_pretty" -> Exists(fs, Tarball(funcs[i]).default_name)
      [] pc = "ln_clang_format" -> ~Exists(fs, "bin/clang-format")
      [] pc = "chmod_evergreen" -> Exists(fs, "bin/evergreen")
      [] pc \in RunCmdsPcs -> cmdq # <<>> /\ CmdCanSucceed(Head(cmdq), fs)
      [] pc = "ln_githooks" -> ~Exists(fs, "hooks/mongo")
      [] pc = "install_hooks" -> Exists(fs, "repo:mongo")
      [] OTHER -> TRUE

\* the run follows a run that was aborted or halted for manual follow-up
RecoveryRun == prev \in {"Aborted", "HaltedForManualAction"}

\* C12 (re-run is a recovery path): a run started on the machine an aborted or
\* halted run left behind reaches Finished when every external command, network
\* call and prompt succeeds: such a run is aborted only at a command that could
\* have succeeded on the machine as it was, never at one that is bound to fail.
C12_RerunRecovers ==
    [][(RecoveryRun /\ state = "RunningStep" /\ state' = "Aborted") => CanSucceedHere]_vars

\* C13 (credential retry protocol order): a non-success response is followed by
\* the error report, then one prompt, then one reset of the held credentials,
\* then the next request; every request is sent with credentials that were not
\* used before (the first, or after a reset); and while the last response is a
\* non-success one the run stays inside the loop of evergreen_yaml: it is not
\* aborted and no later step is started.
C13_RetryProtocol ==
    /\ [][(pc = "evg_status" /\ res.status_code # 200) =>
             (pc' = "evg_error" /\ UNCHANGED <<cntVars, creds>>)]_vars
    /\ [][pc = "evg_error" =>
             (pc' = "evg_req_input" /\ UNCHANGED <<cntVars, creds>>)]_vars
    /\ [][pc = "evg_req_input" =>
             (pc' = "evg_reset" /\ prompts' = Inc(prompts)
                /\ UNCHANGED <<requests, resets, creds>>)]_vars
    /\ [][pc = "evg_reset" =>
             (pc' = "evg_post" /\ resets' = Inc(resets) /\ creds' = "unset"
                /\ UNCHANGED <<requests, prompts>>)]_vars
    /\ [](pc = "evg_post" => creds = "unset")
    /\ [](pc = "evg_post" /\ scriptN # Never => resets = requests /\ prompts = requests)
    /\ [](res.status_code \notin {0, 200} =>
             /\ state = "RunningStep"
             /\ funcs[i] = "evergreen_yaml"
             /\ pc \in EvgLoopPcs
             /\ \A k \in Steps : k > i => started[k] = 0)

C13_Witness ==
    /\ Running("evg_post")
    /\ requests = 2
    /\ prompts = 2
    /\ resets = 2
    /\ creds = "unset"
    /\ res.status_code = 401

\* a success status whose body lacks the issued identity or the token
Malformed ==
    /\ res.status_code = 200
    /\ (res.body.user = Missing \/ res.body.api_key = Missing)

\* C14 (unexpected response shape is fatal): once a success response whose body
\* lacks the identity or the token has been received, evergreen_yaml sends no
\* further request and shows no further prompt; the run is either still at the
\* status check or the formatting of that response, or it is Aborted at the
\* credential step with the KeyError; no later step has started and the
\* credential file is still absent.
C14_MalformedFatal ==
    /\ [](Malformed =>
             /\ funcs[i] = "evergreen_yaml"
             /\ \/ state = "RunningStep" /\ pc \in {"evg_status", "evg_format"}
                \/ state = "Aborted" /\ exc = "KeyError" /\ exitStatus # 0
             /\ \A k \in Steps : k > i => started[k] = 0
             /\ returned[i] = 0
             /\ evgFile = Absent
             /\ writes = 0
             /\ scriptN # Never => requests = scriptN + 1 /\ prompts = scriptN)
    /\ [][Malformed /\ state' # "NotStarted" =>
             UNCHANGED <<requests, prompts, resets, writes, evgFile, i>>]_vars

C14_Witness ==
    /\ Malformed
    /\ state = "Aborted"
    /\ exc = "KeyError"
    /\ funcs[i] = "evergreen_yaml"
    /\ res.body.user \in Users
    /\ requests = 2

\* a step named f has started in this run only after a step named g, earlier in
\* the list, has returned normally in this run
StartsAfterReturnOf(f, g) ==
    \A k \in Steps :
        (funcs[k] = f /\ started[k] = 1) =>
            \E m \in 1..(k - 1) : funcs[m] = g /\ returned[m] = 1

DownloadFuncs == {"download_clang_format", "download_eslint", "download_evergreen"}

\* C15 (dependency ordering of the fixed list): setup_mongo_repo_env and
\* install_githooks start only after clone_repos has returned normally in the
\* same run, and then the mongo repository exists; every download step starts
\* only after create_dir for the user bin directory has returned normally, and
\* then that directory exists and is owned by the user.
C15_DependencyOrder ==
    /\ StartsAfterReturnOf("setup_mongo_repo_env", "clone_repos")
    /\ StartsAfterReturnOf("install_githooks", "clone_repos")
    /\ \A f \in DownloadFuncs : StartsAfterReturnOf(f, "create_dir_bin")
    /\ StepData /\ funcs[i] \in {"setup_mongo_repo_env", "install_githooks"} =>
          \A r \in 1..Len(REQUIRED_REPOS) : Exists(fs0, RepoPath(REQUIRED_REPOS[r]))
    /\ StepData /\ funcs[i] \in DownloadFuncs => OwnedByUser(fs0, "bin")

C15_Witness ==
    /\ Running("install_githooks")
    /\ started[12] = 1
    /\ returned[6] = 1
    /\ returned[4] = 1
    /\ returned[9] = 1
    /\ run = 1

\* the steps whose code asks the operator for input: req_input in ssh_keys and
\* evergreen_yaml, the sudo password in create_dir, the credentials in evergreen_yaml
CanPrompt == {"ssh_keys", "evergreen_yaml"} \cup CreateDirFuncs

InSshKeys == StepData /\ funcs[i] = "ssh_keys"

\* C17 (ssh_keys outcome): the process is halted for manual follow-up only with
\* the key file absent and an answer other than exactly "skip", and with such an
\* answer the step never returns: it is on its way to the exit or halted. With
\* the key file present the step returns without a prompt and leaves the ssh
\* config file as it was. With the key file absent the config file is written
\* before the prompt is shown, whatever the answer; on "skip" the step returns
\* normally and the loop goes on to the next step.
C17_SshKeysOutcome ==
    /\ [](InSshKeys =>
            /\ state = "HaltedForManualAction" =>
                  ~Exists(fs0, "ssh_key") /\ answer \notin {"none", "skip"}
            /\ (~Exists(fs0, "ssh_key") /\ answer \notin {"none", "skip"}) =>
                  /\ returned[i] = 0
                  /\ \/ state = "HaltedForManualAction"
                     \/ /\ state = "RunningStep"
                        /\ pc \in {"ssh_open_browser", "ssh_instructions", "ssh_exit"}
            /\ Exists(fs0, "ssh_key") =>
                  /\ state = "RunningStep"
                  /\ pc \in {"ssh_keys", "action_returned", "for"}
                  /\ prompts = 0 /\ ~asked /\ answer = "none"
                  /\ fs["ssh_config"] = fs0["ssh_config"]
                  /\ ~printed
            /\ ~Exists(fs0, "ssh_key") =>
                  /\ pc = "ssh_req_input" => prompts = 0 /\ ~asked /\ answer = "none"
                  /\ pc \notin {"ssh_keys", "ssh_write_config"} =>
                        fs["ssh_config"] = "present" /\ effects >= 1
                  /\ asked <=> answer # "none"
                  /\ asked => prompts = 1
            /\ answer = "skip" =>
                  /\ state = "RunningStep"
                  /\ pc \in {"action_returned", "for"}
                  /\ exc = "none"
                  /\ ~printed)
    /\ [][(InSshKeys /\ answer = "skip" /\ pc = "action_returned") =>
             (pc' = "for" /\ returned'[i] = 1 /\ state' = "RunningStep")]_vars
    /\ [][(InSshKeys /\ answer = "skip" /\ pc = "for") =>
             (i' = i + 1 /\ pc' = "log_func" /\ state' = "RunningStep")]_vars

C17_Witness ==
    /\ Running("log_func")
    /\ i = 2
    /\ answer = "skip"
    /\ returned[1] = 1
    /\ ~Exists(fs0, "ssh_key")
    /\ fs0["ssh_config"] = "absent"
    /\ fs["ssh_config"] = "present"

\* the current step is a create_dir and its invocation has begun
InCreateDir == StepData /\ funcs[i] \in CreateDirFuncs

\* C18 (create_dir guard and postcondition): with d existing and owned by the
\* user at the check, create_dir issues no privileged command, asks for nothing
\* and returns; otherwise it issues the privileged mkdir, then the privileged
\* chown, and the run is Aborted when either fails (after one command when the
\* mkdir failed, after two when the chown failed); whenever create_dir has
\* returned, d exists and is owned by the user.
C18_CreateDir ==
    InCreateDir =>
        LET d == DirOf(funcs[i]) IN
        /\ OwnedByUser(fs0, d) =>
              /\ state = "RunningStep"
              /\ pc \in {"create_dir", "action_returned", "for"}
              /\ effects = 0
              /\ ~asked
              /\ fs = fs0
        /\ ~OwnedByUser(fs0, d) =>
              \/ /\ state = "RunningStep"
                 /\ pc \in {"create_dir", "sudo_mkdir"}
                 /\ effects = 0
                 /\ fs = fs0
              \/ /\ state = "RunningStep"
                 /\ pc = "sudo_chown"
                 /\ effects = 1
                 /\ Exists(fs, d)
                 /\ ~OwnedByUser(fs, d)
              \/ /\ state = "RunningStep"
                 /\ pc \in {"action_returned", "for"}
                 /\ effects = 2
              \/ /\ state = "Aborted"
                 /\ exc = "UnexpectedExit"
                 /\ returned[i] = 0
                 /\ effects \in {1, 2}
                 /\ effects = 1 => fs = fs0
                 /\ ~OwnedByUser(fs, d)
                 /\ \A k \in Steps : k > i => started[k] = 0
        /\ (state = "RunningStep" /\ pc \in {"action_returned", "for"}) =>
              OwnedByUser(fs, d)
        /\ returned[i] = 1 => OwnedByUser(fs, d)

C18_Witness ==
    /\ InCreateDir
    /\ funcs[i] = "create_dir_toolchain"
    /\ fs0["/opt/mongodbtoolchain"] = "other"
    /\ fs["/opt/mongodbtoolchain"] = "present"
    /\ returned[i] = 1
    /\ effects = 2
    /\ asked

\* the current step is clone_repos and its invocation has begun
InCloneRepos == StepData /\ funcs[i] = "clone_repos"

\* the directory of the r-th required repository
RepoDir(r) == RepoPath(REQUIRED_REPOS[r])

\* the commands clone_repos has issued once the first n repositories are done:
\* the mkdir of the root when it was absent and one clone per absent repository
IssuedAfter(n) ==
    (IF Exists(fs0, "repo_root") THEN 0 ELSE 1)
      + Cardinality({r \in 1..n : ~Exists(fs0, RepoDir(r))})

\* C19 (clone_repos per-repository guard): a clone is issued for a repository
\* exactly when its directory is absent at its check; a present repository is
\* skipped and the loop goes on with the next one; a failed clone aborts the run
\* with every later repository untouched; when clone_repos has returned every
\* required repository exists.
C19_CloneRepos ==
    InCloneRepos =>
        LET n == Len(REQUIRED_REPOS) IN
        /\ (state = "RunningStep" /\ pc = "clone_repos") => effects = 0 /\ fs = fs0
        /\ (state = "RunningStep" /\ pc = "clone_check") =>
              /\ j \in 1..(n + 1)
              /\ effects = IssuedAfter(j - 1)
              /\ \A r \in 1..(j - 1) : Exists(fs, RepoDir(r))
              /\ \A r \in j..n : fs[RepoDir(r)] = fs0[RepoDir(r)]
        /\ (state = "RunningStep" /\ pc = "git_clone") =>
              /\ j \in 1..n
              /\ ~Exists(fs0, RepoDir(j))
              /\ ~Exists(fs, RepoDir(j))
              /\ effects = IssuedAfter(j - 1)
              /\ \A r \in 1..(j - 1) : Exists(fs, RepoDir(r))
        /\ (state = "RunningStep" /\ pc \in {"action_returned", "for"}) =>
              /\ \A r \in 1..n : Exists(fs, RepoDir(r))
              /\ effects = IssuedAfter(n)
        /\ state = "Aborted" =>
              /\ exc = "UnexpectedExit"
              /\ returned[i] = 0
              /\ j \in 1..n
              /\ ~Exists(fs0, RepoDir(j))
              /\ effects = IssuedAfter(j)
              /\ \A r \in j..n : fs[RepoDir(r)] = fs0[RepoDir(r)]
              /\ \A k \in Steps : k > i => started[k] = 0
        /\ state \in {"RunningStep", "Aborted"}

C19_Witness ==
    /\ InCloneRepos
    /\ pc = "action_returned"
    /\ Exists(fs0, RepoDir(1))
    /\ ~Exists(fs0, RepoDir(2))
    /\ Exists(fs, RepoDir(2))
    /\ effects = 1

====
